---- MODULE Spec2Model ----
(***************************************************************************)
(* pretix -> iFirma: the record transformer (convertPretixtoiFirma.py)     *)
(* and the invoice uploader (uploadToiFirma.py) as one state machine.      *)
(*                                                                         *)
(* Representation.  A Python str is a sequence of characters, each a       *)
(* one-character string; a character outside ASCII is written by its code  *)
(* point ("U+015B").  bytes are sequences of numbers 0..255.  A float is   *)
(* the decimal it was parsed from, [neg, m, e] = (-1)^neg * m / 10^e with  *)
(* trailing zeros of the fraction dropped, so that -0.0 and 0.0 differ in  *)
(* sign only.  A JSON value is a tagged record: [null], [bool], [num],     *)
(* [str], [list], [dict]; a dict is the sequence of its <<key, value>>     *)
(* pairs in insertion order.  A raised exception is [ok |-> FALSE, ...].   *)
(***************************************************************************)
EXTENDS Integers, Sequences, FiniteSets, TLC

VARIABLES
    rows,        \* the rows csv.DictReader yields from input.csv
    t_pc,        \* transformer: "rows" (in the loop) or "done"
    t_i,         \* transformer: index of the next row
    t_invoices,  \* transformer: the list `invoices`
    t_src,       \* history: t_src[k] is the row index t_invoices[k] came from
    t_out,       \* transformer: what it printed, [row, text]
    file,        \* ifirma_invoices.json: Missing or the JSON document
    file_by,     \* history: who wrote the file, "hand" or "transformer"
    u_pc,        \* uploader: "start", "loop", "done", "fatal", "crashed"
    u_invoices,  \* uploader: the list json.load returned
    u_by,        \* history: file_by at the time the uploader read the file
    u_i,         \* uploader: index of the next invoice
    posts,       \* the requests.post calls made, in order
    u_out        \* uploader: what it printed after each POST, [idx, kind, text]

vars == <<rows, t_pc, t_i, t_invoices, t_src, t_out, file, file_by,
          u_pc, u_invoices, u_by, u_i, posts, u_out>>

----------------------------------------------------------------------------
\* Bounds of the model.

\* rows in input.csv
MaxRows == 2
\* invoices in a hand-written ifirma_invoices.json
MaxFile == 2

----------------------------------------------------------------------------
\* Sequences and text.

RECURSIVE Flatten(_)
Flatten(ss) ==
    IF Len(ss) = 0 THEN <<>>
    ELSE IF Len(ss) = 1 THEN ss[1]
    ELSE LET h == Len(ss) \div 2
         IN Flatten(SubSeq(ss, 1, h)) \o Flatten(SubSeq(ss, h + 1, Len(ss)))

Join(ss, sep) ==
    Flatten([i \in DOMAIN ss |-> IF i = 1 THEN ss[i] ELSE sep \o ss[i]])

Contains(s, sub) ==
    \E i \in 0..(Len(s) - Len(sub)) : SubSeq(s, i + 1, i + Len(sub)) = sub

Whitespace == {" ", "\t", "\n", "\r"}

RECURSIVE lstrip(_)
lstrip(s) == IF s # <<>> /\ Head(s) \in Whitespace THEN lstrip(Tail(s)) ELSE s

RECURSIVE rstrip(_)
rstrip(s) ==
    IF s # <<>> /\ s[Len(s)] \in Whitespace
    THEN rstrip(SubSeq(s, 1, Len(s) - 1)) ELSE s

\* str.strip()
strip(s) == rstrip(lstrip(s))

\* str.replace(old, new) for a one-character `old`
replace(s, old, new) ==
    Flatten([i \in DOMAIN s |-> IF s[i] = old THEN new ELSE <<s[i]>>])

DigitChars == <<"0", "1", "2", "3", "4", "5", "6", "7", "8", "9">>
IsDigit(c) == \E d \in DOMAIN DigitChars : DigitChars[d] = c
DigitVal(c) == (CHOOSE d \in DOMAIN DigitChars : DigitChars[d] = c) - 1
AllDigits(s) == \A i \in DOMAIN s : IsDigit(s[i])

RECURSIVE NatOf(_)
NatOf(s) ==
    IF s = <<>> THEN 0
    ELSE 10 * NatOf(SubSeq(s, 1, Len(s) - 1)) + DigitVal(s[Len(s)])

RECURSIVE NatText(_)
NatText(n) ==
    IF n < 10 THEN <<DigitChars[n + 1]>>
    ELSE NatText(n \div 10) \o <<DigitChars[(n % 10) + 1]>>

RECURSIVE ZeroPad(_, _)
ZeroPad(s, width) == IF Len(s) >= width THEN s ELSE ZeroPad(<<"0">> \o s, width)

RECURSIVE Pow10(_)
Pow10(e) == IF e = 0 THEN 1 ELSE 10 * Pow10(e - 1)

\* The printable ASCII characters, code points 32..126 in order (the grave
\* accent, 96, by its code point).
Ascii ==
    <<" ", "!", "\"", "#", "$", "%", "&", "'", "(", ")", "*", "+", ",", "-", ".", "/",
      "0", "1", "2", "3", "4", "5", "6", "7", "8", "9", ":", ";", "<", "=", ">", "?",
      "@", "A", "B", "C", "D", "E", "F", "G", "H", "I", "J", "K", "L", "M", "N", "O",
      "P", "Q", "R", "S", "T", "U", "V", "W", "X", "Y", "Z", "[", "\\", "]", "^", "_",
      "U+0060", "a", "b", "c", "d", "e", "f", "g", "h", "i", "j", "k", "l", "m", "n", "o",
      "p", "q", "r", "s", "t", "u", "v", "w", "x", "y", "z", "{", "|", "}", "~">>

HexChars == <<"0", "1", "2", "3", "4", "5", "6", "7", "8", "9", "a", "b", "c", "d", "e", "f">>
HexVal(c) == (CHOOSE d \in DOMAIN HexChars : HexChars[d] = c) - 1

\* The characters outside ASCII that occur in the texts below, with their
\* code points.
NonAscii ==
    <<<<"U+00F3", 243>>,
      <<"U+0105", 261>>,
      <<"U+0107", 263>>,
      <<"U+0141", 321>>,
      <<"U+0142", 322>>,
      <<"U+0144", 324>>,
      <<"U+015B", 347>>,
      <<"U+017A", 378>>,
      <<"U+017C", 380>>>>

\* ord(c), tabulated once over the characters of the model.
CodePoints ==
    [c \in {Ascii[i] : i \in DOMAIN Ascii} \cup {NonAscii[i][1] : i \in DOMAIN NonAscii}
           \cup {"\n", "\t", "\r"} |->
        IF \E i \in DOMAIN Ascii : Ascii[i] = c
        THEN 31 + (CHOOSE i \in DOMAIN Ascii : Ascii[i] = c)
        ELSE IF c = "\n" THEN 10
        ELSE IF c = "\t" THEN 9
        ELSE IF c = "\r" THEN 13
        ELSE NonAscii[CHOOSE i \in DOMAIN NonAscii : NonAscii[i][1] = c][2]]

CodePoint(c) == CodePoints[c]

\* The UTF-8 bytes of one character.
Utf8Char(c) ==
    LET cp == CodePoint(c)
    IN IF cp < 128 THEN <<cp>>
       ELSE IF cp < 2048 THEN <<192 + (cp \div 64), 128 + (cp % 64)>>
       ELSE <<224 + (cp \div 4096), 128 + ((cp \div 64) % 64), 128 + (cp % 64)>>

\* str.encode('utf-8')
encode_utf8(s) == Flatten([i \in DOMAIN s |-> Utf8Char(s[i])])

\* bytes.fromhex(s), for a string of hexadecimal digit pairs
fromhex(s) ==
    [i \in 1..(Len(s) \div 2) |-> 16 * HexVal(s[2 * i - 1]) + HexVal(s[2 * i])]

\* Results of operations that can raise.
Ok(v) == [ok |-> TRUE, val |-> v]
Raise(exc, msg) == [ok |-> FALSE, exc |-> exc, msg |-> msg]

----------------------------------------------------------------------------
\* Floats.

\* A float as the decimal (-1)^neg * m / 10^e, trailing zeros dropped.
RECURSIVE MkFloat(_, _, _)
MkFloat(neg, m, e) ==
    IF e > 0 /\ m % 10 = 0 THEN MkFloat(neg, m \div 10, e - 1)
    ELSE [neg |-> neg, m |-> m, e |-> e]

\* x == 0.0 (true of -0.0 as well)
IsZero(x) == x.m = 0

\* float(s) for the decimal forms [ws][sign]digits[.digits][ws] and
\* [sign].digits; anything else raises ValueError.  (float() also accepts
\* exponents, "inf", "nan" and digit-group underscores: no input of the
\* model uses them.)
py_float(s) ==
    LET t == strip(s)
        signed == t # <<>> /\ Head(t) \in {"+", "-"}
        neg == t # <<>> /\ Head(t) = "-"
        u == IF signed THEN Tail(t) ELSE t
        dots == {i \in DOMAIN u : u[i] = "."}
        dot == IF dots = {} THEN Len(u) + 1 ELSE CHOOSE i \in dots : TRUE
        ip == SubSeq(u, 1, dot - 1)
        fp == SubSeq(u, dot + 1, Len(u))
    IN IF /\ Cardinality(dots) <= 1
          /\ AllDigits(ip) /\ AllDigits(fp)
          /\ Len(ip) + Len(fp) >= 1
       THEN Ok(MkFloat(neg, NatOf(ip \o fp), Len(fp)))
       ELSE Raise("ValueError", <<"c","o","u","l","d"," ","n","o","t"," ","c","o",
                                  "n","v","e","r","t"," ","s","t","r","i","n","g",
                                  " ","t","o"," ","f","l","o","a","t">>)

\* repr(x), as json.dumps writes a float (positional notation: the model's
\* floats stay between 1e-4 and 1e16).
float_repr(x) ==
    LET p == Pow10(x.e)
    IN (IF x.neg THEN <<"-">> ELSE <<>>)
       \o NatText(x.m \div p) \o <<".">>
       \o (IF x.e = 0 THEN <<"0">> ELSE ZeroPad(NatText(x.m % p), x.e))

----------------------------------------------------------------------------
\* Calendar dates ([y, m, d]) and datetimes ([y, m, d, hh, mi, ss]).

IsLeap(y) == (y % 4 = 0 /\ y % 100 # 0) \/ y % 400 = 0

DaysInMonth(y, m) ==
    IF m = 2 THEN (IF IsLeap(y) THEN 29 ELSE 28)
    ELSE IF m \in {4, 6, 9, 11} THEN 30 ELSE 31

NextDay(dt) ==
    IF dt.d < DaysInMonth(dt.y, dt.m) THEN [dt EXCEPT !.d = dt.d + 1]
    ELSE IF dt.m < 12 THEN [dt EXCEPT !.m = dt.m + 1, !.d = 1]
    ELSE [dt EXCEPT !.y = dt.y + 1, !.m = 1, !.d = 1]

\* dt + timedelta(days=n): OverflowError past datetime.MAXYEAR, 9999
RECURSIVE plus_days(_, _)
plus_days(dt, n) ==
    IF n = 0 THEN Ok(dt)
    ELSE LET nx == NextDay(dt)
         IN IF nx.y > 9999
            THEN Raise("OverflowError", <<"d","a","t","e"," ","v","a","l","u","e"," ","o",
                                          "u","t"," ","o","f"," ","r","a","n","g","e">>)
            ELSE plus_days(nx, n - 1)

\* date.isoformat() and strftime("%Y-%m-%d")
isoformat(dt) ==
    ZeroPad(NatText(dt.y), 4) \o <<"-">> \o ZeroPad(NatText(dt.m), 2)
    \o <<"-">> \o ZeroPad(NatText(dt.d), 2)

\* datetime.fromisoformat(s) for "YYYY-MM-DD" + separator + "HH:MM:SS" +
\* "+00:00"; anything else raises ValueError.  (The shorter time forms and
\* the fractional seconds fromisoformat also reads are used by no input of
\* the model.)
fromisoformat(s) ==
    LET num(i, j) == NatOf(SubSeq(s, i, j))
        shape == /\ Len(s) = 25
                 /\ AllDigits(SubSeq(s, 1, 4)) /\ s[5] = "-"
                 /\ AllDigits(SubSeq(s, 6, 7)) /\ s[8] = "-"
                 /\ AllDigits(SubSeq(s, 9, 10))
                 /\ AllDigits(SubSeq(s, 12, 13)) /\ s[14] = ":"
                 /\ AllDigits(SubSeq(s, 15, 16)) /\ s[17] = ":"
                 /\ AllDigits(SubSeq(s, 18, 19))
                 /\ SubSeq(s, 20, 25) = <<"+","0","0",":","0","0">>
        range == /\ num(1, 4) \in 1..9999
                 /\ num(6, 7) \in 1..12
                 /\ num(9, 10) \in 1..DaysInMonth(num(1, 4), num(6, 7))
                 /\ num(12, 13) \in 0..23
                 /\ num(15, 16) \in 0..59
                 /\ num(18, 19) \in 0..59
    IN IF shape /\ range
       THEN Ok([y |-> num(1, 4), m |-> num(6, 7), d |-> num(9, 10),
                hh |-> num(12, 13), mi |-> num(15, 16), ss |-> num(18, 19)])
       ELSE Raise("ValueError", <<"I","n","v","a","l","i","d"," ","i","s","o","f",
                                  "o","r","m","a","t"," ","s","t","r","i","n","g">>)

----------------------------------------------------------------------------
\* JSON values, as Python holds them.

None == [null |-> TRUE]
JBool(b) == [bool |-> b]
JNum(x) == [num |-> x]
JStr(s) == [str |-> s]
JList(items) == [list |-> items]
JDict(pairs) == [dict |-> pairs]

IsDict(v) == DOMAIN v = {"dict"}
IsList(v) == DOMAIN v = {"list"}
IsStr(v) == DOMAIN v = {"str"}
IsNum(v) == DOMAIN v = {"num"}

\* key in d
Has(d, k) == \E i \in DOMAIN d.dict : d.dict[i][1] = k
\* d[k]
At(d, k) == d.dict[CHOOSE i \in DOMAIN d.dict : d.dict[i][1] = k][2]
\* d.get(k, default)
get(d, k, default) == IF Has(d, k) THEN At(d, k) ELSE default
\* d[k] = v
setitem(d, k, v) ==
    IF Has(d, k)
    THEN JDict([i \in DOMAIN d.dict |->
                   IF d.dict[i][1] = k THEN <<k, v>> ELSE d.dict[i]])
    ELSE JDict(Append(d.dict, <<k, v>>))
\* d.pop(k, None)
pop(d, k) == JDict(SelectSeq(d.dict, LAMBDA p : p[1] # k))

\* A JSON string body as json.dumps(ensure_ascii=False) writes it: quote,
\* backslash and the control characters escaped, all else literal.
json_escape(s) ==
    Flatten([i \in DOMAIN s |->
        IF s[i] = "\"" THEN <<"\\", "\"">>
        ELSE IF s[i] = "\\" THEN <<"\\", "\\">>
        ELSE IF s[i] = "\n" THEN <<"\\", "n">>
        ELSE IF s[i] = "\t" THEN <<"\\", "t">>
        ELSE IF s[i] = "\r" THEN <<"\\", "r">>
        ELSE <<s[i]>>])

json_string(s) == <<"\"">> \o json_escape(s) \o <<"\"">>

\* json.dumps(v, separators=(',', ':'), ensure_ascii=False)
RECURSIVE json_dumps(_)
json_dumps(v) ==
    IF v = None THEN <<"n","u","l","l">>
    ELSE IF DOMAIN v = {"bool"} THEN (IF v.bool THEN <<"t","r","u","e">> ELSE <<"f","a","l","s","e">>)
    ELSE IF IsNum(v) THEN float_repr(v.num)
    ELSE IF IsStr(v) THEN json_string(v.str)
    ELSE IF IsList(v)
    THEN <<"[">> \o Join([i \in DOMAIN v.list |-> json_dumps(v.list[i])], <<",">>)
         \o <<"]">>
    ELSE <<"{">>
         \o Join([i \in DOMAIN v.dict |->
                     json_string(v.dict[i][1]) \o <<":">> \o json_dumps(v.dict[i][2])],
                 <<",">>)
         \o <<"}">>

\* The intermediate file holds the JSON document; a number is in it as the
\* text json.dump wrote, and json.load reads that text back with float().
RECURSIVE json_dump_doc(_)
json_dump_doc(v) ==
    IF IsNum(v) THEN [numtext |-> float_repr(v.num)]
    ELSE IF IsList(v) THEN JList([i \in DOMAIN v.list |-> json_dump_doc(v.list[i])])
    ELSE IF IsDict(v)
    THEN JDict([i \in DOMAIN v.dict |->
                   <<v.dict[i][1], json_dump_doc(v.dict[i][2])>>])
    ELSE v

RECURSIVE json_load_doc(_)
json_load_doc(v) ==
    IF DOMAIN v = {"numtext"} THEN JNum(py_float(v.numtext).val)
    ELSE IF IsList(v) THEN JList([i \in DOMAIN v.list |-> json_load_doc(v.list[i])])
    ELSE IF IsDict(v)
    THEN JDict([i \in DOMAIN v.dict |->
                   <<v.dict[i][1], json_load_doc(v.dict[i][2])>>])
    ELSE v

Missing == [missing |-> TRUE]

----------------------------------------------------------------------------
\* The record transformer, convertPretixtoiFirma.py.

\* A row is a function from the header's column names to text.  The column
\* names are lookup keys only and are written without diacritics here:
\* "Kod zamowienia", "Data zamowienia", "Godzina zamowienia",
\* "Suma zamowienia", "Wartosc podatku 0.00 %", "Imie" stand for the
\* headers with o-acute, s-acute, c-acute and e-ogonek.

\* row.get(col, default)
row_get(row, col, default) == IF col \in DOMAIN row THEN row[col] ELSE default

convert_date(date_str, time_str) ==
    IF date_str = <<>> \/ time_str = <<>>
    THEN Raise("ValueError",
               <<"B","r","a","k"," ","d","a","t","y"," ","l","u",
                 "b"," ","g","o","d","z","i","n","y",":"," ","d",
                 "a","t","a","=","'">> \o date_str \o <<"'",","," ","g","o","d","z","i","n","a","=","'">>
               \o time_str \o <<"'">>)
    ELSE LET iso_str == date_str \o <<"T">> \o time_str \o <<"Z">>
             r == fromisoformat(replace(iso_str, "Z", <<"+","0","0",":","0","0">>))
         IN IF r.ok THEN Ok(<<isoformat(r.val), r.val>>)
            ELSE Raise("ValueError",
                       <<"N","i","e","p","r","a","w","i","d","U+0142","o","w",
                         "y"," ","f","o","r","m","a","t"," ","d","a","t",
                         "y"," ","i"," ","g","o","d","z","i","n","y",":",
                         " ">> \o iso_str)

float_from_str_lenient(num_str) ==
    IF num_str = <<>> THEN Ok(MkFloat(FALSE, 0, 0))
    ELSE LET r == py_float(replace(num_str, ",", <<".">>))
         IN IF r.ok THEN r ELSE Ok(MkFloat(FALSE, 0, 0))

float_from_str(num_str) ==
    IF num_str = <<>> THEN Ok(MkFloat(FALSE, 0, 0))
    ELSE LET r == py_float(replace(num_str, ",", <<".">>))
         IN IF r.ok THEN r
            ELSE Raise("ValueError",
                       <<"N","i","e"," ","m","o","U+017C","n","a"," ","p","r",
                         "z","e","k","o","n","w","e","r","t","o","w","a",
                         "U+0107"," ","'">> \o num_str \o <<"'"," ","n","a"," ","f","l","o","a","t">>)

\* "ZW" if tax_rate == 0.0 else "PRC"
vat_type(tax_rate) == IF IsZero(tax_rate) THEN <<"Z","W">> ELSE <<"P","R","C">>

\* The body of the try block for one row: the invoice, or the first
\* exception raised, in the order the statements run.
row_to_invoice(row) ==
    LET order_code == strip(row_get(row, "Kod zamowienia", <<>>))
        date_order == strip(row_get(row, "Data zamowienia", <<>>))
        time_order == strip(row_get(row, "Godzina zamowienia", <<>>))
        email == strip(row_get(row, "Email", <<>>))
        phone == strip(row_get(row, "Numer telefonu", <<>>))
        total == float_from_str(strip(row_get(row, "Suma zamowienia", <<"0",",","0","0">>)))
        event_name == strip(row_get(row, "Nazwa wydarzenia", <<"W","y","d","a","r","z","e","n","i","e">>))
        product_name == <<"W","e","j","U+015B","c","i","e"," ","n","a"," ","w",
                          "y","d","a","r","z","e","n","i","e"," ">> \o event_name
        brutto == strip(row_get(row, "Brutto dla podatku 0.00 %", <<>>))
        product_price ==
            float_from_str(IF brutto # <<>> THEN brutto
                           ELSE strip(row_get(row, "Suma zamowienia", <<"0",",","0","0">>)))
        tax_rate == float_from_str(strip(row_get(row, "Wartosc podatku 0.00 %", <<"0",",","0","0">>)))
        quantity == float_from_str(strip(row_get(row, "Pozycje", <<"1">>)))
        dates == convert_date(date_order, time_order)
        invoice_date == dates.val[1]
        deadline == plus_days(dates.val[2], 7)
        payment_deadline == isoformat(deadline.val)
        position ==
            JDict(<< <<<<"S","t","a","w","k","a","V","a","t">>, JNum(tax_rate.val)>>,
                     <<<<"I","l","o","s","c">>, JNum(quantity.val)>>,
                     <<<<"C","e","n","a","J","e","d","n","o","s","t","k",
                         "o","w","a">>, JNum(product_price.val)>>,
                     <<<<"N","a","z","w","a","P","e","l","n","a">>, JStr(product_name)>>,
                     <<<<"J","e","d","n","o","s","t","k","a">>, JStr(<<"s","z","t","u","k">>)>>,
                     <<<<"T","y","p","S","t","a","w","k","i","V","a","t">>, JStr(vat_type(tax_rate.val))>> >>)
        first_name == strip(row_get(row, "Imie", <<>>))
        last_name == strip(row_get(row, "Nazwisko", <<>>))
        joined == strip(first_name \o <<" ">> \o last_name)
        full_name == IF joined # <<>> THEN joined
                     ELSE IF email # <<>> THEN email ELSE <<"K","l","i","e","n","t">>
        kontrahent ==
            JDict(<< <<<<"N","a","z","w","a">>, JStr(full_name)>>,
                     <<<<"E","m","a","i","l">>, JStr(email)>>,
                     <<<<"T","e","l","e","f","o","n">>, JStr(phone)>>,
                     <<<<"U","l","i","c","a">>, JStr(strip(row_get(row, "Adres", <<"N","i","e","z","n","a","n","a">>)))>>,
                     <<<<"K","o","d","P","o","c","z","t","o","w","y">>, JStr(strip(row_get(row, "Kod pocztowy", <<"0","0","-","0","0","0">>)))>>,
                     <<<<"K","r","a","j">>, JStr(strip(row_get(row, "Kraj", <<"P","L">>)))>>,
                     <<<<"M","i","e","j","s","c","o","w","o","s","c">>, JStr(strip(row_get(row, "Miasto", <<"N","i","e","z","n","a","n","e">>)))>>,
                     <<<<"O","s","o","b","a","F","i","z","y","c","z","n",
                         "a">>, JBool(TRUE)>> >>)
        adres == strip(row_get(row, "Adres", <<"N","i","e","z","n","a","n","y">>))
        invoice ==
            JDict(<< <<<<"S","t","a","t","u","s">>, JStr(<<"D","O","_","P","O","T","W","I","E","R","D","Z",
                                         "E","N","I","A">>)>>,
                     <<<<"Z","a","p","l","a","c","o","n","o">>, JNum(total.val)>>,
                     <<<<"L","i","c","z","O","d">>, JStr(<<"B","R","T">>)>>,
                     <<<<"N","u","m","e","r","K","o","n","t","a","B","a",
                         "n","k","o","w","e","g","o">>, None>>,
                     <<<<"D","a","t","a","W","y","s","t","a","w","i","e",
                         "n","i","a">>, JStr(invoice_date)>>,
                     <<<<"M","i","e","j","s","c","e","W","y","s","t","a",
                         "w","i","e","n","i","a">>,
                       JStr(IF adres # <<>> THEN adres ELSE <<"N","i","e","z","n","a","n","e">>)>>,
                     <<<<"D","a","t","a","S","p","r","z","e","d","a","z",
                         "y">>, JStr(invoice_date)>>,
                     <<<<"F","o","r","m","a","t","D","a","t","y","S","p",
                         "r","z","e","d","a","z","y">>, JStr(<<"D","Z","N">>)>>,
                     <<<<"T","e","r","m","i","n","P","l","a","t","n","o",
                         "s","c","i">>, JStr(payment_deadline)>>,
                     <<<<"S","p","o","s","o","b","Z","a","p","l","a","t",
                         "y">>, JStr(<<"P","R","Z">>)>>,
                     <<<<"N","a","z","w","a","S","e","r","i","i","N","u",
                         "m","e","r","a","c","j","i">>, JStr(<<"d","e","f","a","u","l","t">>)>>,
                     <<<<"N","a","z","w","a","S","z","a","b","l","o","n",
                         "u">>, JStr(<<>>)>>,
                     <<<<"R","o","d","z","a","j","P","o","d","p","i","s",
                         "u","O","d","b","i","o","r","c","y">>, JStr(<<"O","U","P">>)>>,
                     <<<<"P","o","d","p","i","s","O","d","b","i","o","r",
                         "c","y">>, JStr(<<"O","d","b","i","o","r","c","a">>)>>,
                     <<<<"P","o","d","p","i","s","W","y","s","t","a","w",
                         "c","y">>, JStr(<<"W","y","s","t","a","w","c","a">>)>>,
                     <<<<"U","w","a","g","i">>, JStr(order_code)>>,
                     <<<<"W","i","d","o","c","z","n","y","N","u","m","e",
                         "r","G","i","o","s">>, JBool(TRUE)>>,
                     <<<<"N","u","m","e","r">>, None>>,
                     <<<<"P","o","z","y","c","j","e">>, JList(<<position>>)>>,
                     <<<<"K","o","n","t","r","a","h","e","n","t">>, kontrahent>> >>)
    IN IF ~total.ok THEN total
       ELSE IF ~product_price.ok THEN product_price
       ELSE IF ~tax_rate.ok THEN tax_rate
       ELSE IF ~quantity.ok THEN quantity
       ELSE IF ~dates.ok THEN dates
       ELSE IF ~deadline.ok THEN deadline
       ELSE Ok(invoice)

\* The except clause's print for a row.
conversion_error_text(row, e) ==
    <<"B","U+0142","U+0105","d"," ","p","r","z","y"," ","k","o",
      "n","w","e","r","s","j","i"," ","z","a","m","U+00F3",
      "w","i","e","n","i","a"," ","'">>
    \o row_get(row, "Kod zamowienia", <<"B","r","a","k"," ","k","o","d","u">>) \o <<"'",":"," ">> \o e.msg

\* The final print.
summary_text(n) ==
    <<"S","k","o","n","w","e","r","t","o","w","a","n",
      "o"," ">> \o NatText(n)
    \o <<" ","z","a","m","U+00F3","w","i","e","U+0144"," ","d","o",
         " ","f","o","r","m","a","t","u"," ","i","f","i",
         "r","m","a","."," ","W","y","n","i","k"," ","z",
         "a","p","i","s","a","n","o"," ","d","o"," ","i",
         "f","i","r","m","a","_","i","n","v","o","i","c",
         "e","s",".","j","s","o","n">>

\* One iteration of `for row in reader`.
ConvertRow ==
    /\ t_pc = "rows"
    /\ t_i <= Len(rows)
    /\ \E r \in {row_to_invoice(rows[t_i])} :
          IF r.ok
          THEN /\ t_invoices' = Append(t_invoices, r.val)
               /\ t_src' = Append(t_src, t_i)
               /\ t_out' = t_out
          ELSE /\ t_out' = Append(t_out,
                      [row |-> t_i, text |-> conversion_error_text(rows[t_i], r)])
               /\ UNCHANGED <<t_invoices, t_src>>
    /\ t_i' = t_i + 1
    /\ UNCHANGED <<rows, t_pc, file, file_by, u_pc, u_invoices, u_by, u_i, posts, u_out>>

\* After the loop: json.dump to the output file and the summary print.
WriteOutput ==
    /\ t_pc = "rows"
    /\ t_i > Len(rows)
    /\ file' = json_dump_doc(JList(t_invoices))
    /\ file_by' = "transformer"
    /\ t_out' = Append(t_out, [row |-> 0, text |-> summary_text(Len(t_invoices))])
    /\ t_pc' = "done"
    /\ UNCHANGED <<rows, t_i, t_invoices, t_src, u_pc, u_invoices, u_by, u_i, posts, u_out>>

----------------------------------------------------------------------------
\* The invoice uploader, uploadToiFirma.py.

\* The configuration read from the environment at import: a sample key and
\* user (both are required), and the defaults of the key name and the URL.
IFIRMA_API_KEY == <<"0","a","1","b","2","c">>
IFIRMA_USERNAME == <<"d","e","m","o">>
IFIRMA_KEY_NAME == <<"f","a","k","t","u","r","a">>
IFIRMA_URL == <<"h","t","t","p","s",":","/","/","w","w","w",".",
                "i","f","i","r","m","a",".","p","l","/","i","a",
                "p","i","/","f","a","k","t","u","r","a","k","r",
                "a","j",".","j","s","o","n">>

get_dates_no_add(now) == <<isoformat(now), isoformat(now)>>

\* (today_str, deadline_str) for datetime.now() = now
get_dates(now) == <<isoformat(now), isoformat(plus_days(now, 7).val)>>

\* HMAC-SHA1 is not computed: a digest is the pair it was computed from, and
\* its hexadecimal text is that pair with the letter case.
compute_hmac(message, key_bytes) ==
    LET h == [key |-> key_bytes, msg |-> encode_utf8(message)]
    IN <<[hmac_sha1 |-> h, hex |-> "lower"], [hmac_sha1 |-> h, hex |-> "upper"]>>

remove_none_values_shallow(d) ==
    IF ~IsDict(d) THEN d ELSE JDict(SelectSeq(d.dict, LAMBDA p : p[2] # None))

RECURSIVE remove_none_values(_)
remove_none_values(d) ==
    IF ~IsDict(d) THEN d
    ELSE LET kept == SelectSeq(d.dict, LAMBDA p : p[2] # None)
         IN JDict([i \in DOMAIN kept |->
                      <<kept[i][1], remove_none_values(kept[i][2])>>])

\* The pairs of d for the keys of keys_order that d has, in that order.
InOrder(d, keys_order) ==
    Flatten([i \in DOMAIN keys_order |->
        IF Has(d, keys_order[i])
        THEN << <<keys_order[i], At(d, keys_order[i])>> >> ELSE <<>>])

order_position_keep(pos) ==
    IF ~IsDict(pos)
    THEN Raise("AttributeError", <<"o","b","j","e","c","t"," ","h","a","s"," ","n",
                                   "o"," ","a","t","t","r","i","b","u","t","e"," ",
                                   "'","g","e","t","'">>)
    ELSE Ok(JDict(InOrder(pos, <<<<"S","t","a","w","k","a","V","a","t">>, <<"I","l","o","s","c">>, <<"C","e","n","a","J","e","d","n","o","s","t","k",
                                                           "o","w","a">>,
                                 <<"N","a","z","w","a","P","e","l","n","a">>, <<"J","e","d","n","o","s","t","k","a">>, <<"T","y","p","S","t","a","w","k","i","V","a","t">>>>)))

\* pos.get raises AttributeError when pos is no dict.
order_position(pos) ==
    IF ~IsDict(pos)
    THEN Raise("AttributeError", <<"o","b","j","e","c","t"," ","h","a","s"," ","n",
                                   "o"," ","a","t","t","r","i","b","u","t","e"," ",
                                   "'","g","e","t","'">>)
    ELSE LET keys_order == <<<<"S","t","a","w","k","a","V","a","t">>, <<"I","l","o","s","c">>, <<"C","e","n","a","J","e","d","n","o","s","t","k",
                                                       "o","w","a">>,
                             <<"N","a","z","w","a","P","e","l","n","a">>, <<"J","e","d","n","o","s","t","k","a">>, <<"T","y","p","S","t","a","w","k","i","V","a","t">>>>
             entry(key) ==
                 IF key = <<"S","t","a","w","k","a","V","a","t">> /\ get(pos, <<"T","y","p","S","t","a","w","k","i","V","a","t">>, None) = JStr(<<"Z","W">>)
                 THEN << <<key, None>> >>
                 ELSE IF Has(pos, key) THEN << <<key, At(pos, key)>> >>
                 ELSE <<>>
         IN Ok(JDict(Flatten([i \in DOMAIN keys_order |-> entry(keys_order[i])])))

order_contrahent(contr) ==
    JDict(InOrder(contr, <<<<"N","a","z","w","a">>, <<"E","m","a","i","l">>, <<"T","e","l","e","f","o","n">>, <<"U","l","i","c","a">>, <<"K","o","d","P","o","c","z","t","o","w","y">>,
                           <<"K","r","a","j">>, <<"M","i","e","j","s","c","o","w","o","s","c">>, <<"O","s","o","b","a","F","i","z","y","c","z","n",
                                                      "a">>>>))

build_ordered_invoice(invoice) ==
    LET inv == IF Has(invoice, <<"N","u","m","e","r">>) THEN invoice
               ELSE setitem(invoice, <<"N","u","m","e","r">>, None)
        keys_order ==
            <<<<"Z","a","p","l","a","c","o","n","o">>, <<"L","i","c","z","O","d">>, <<"N","u","m","e","r","K","o","n","t","a","B","a",
                                         "n","k","o","w","e","g","o">>, <<"D","a","t","a","W","y","s","t","a","w","i","e",
                                                                 "n","i","a">>,
              <<"M","i","e","j","s","c","e","W","y","s","t","a",
                "w","i","e","n","i","a">>, <<"D","a","t","a","S","p","r","z","e","d","a","z",
                                       "y">>, <<"F","o","r","m","a","t","D","a","t","y","S","p",
                                                         "r","z","e","d","a","z","y">>,
              <<"T","e","r","m","i","n","P","l","a","t","n","o",
                "s","c","i">>, <<"S","p","o","s","o","b","Z","a","p","l","a","t",
                                    "y">>, <<"N","a","z","w","a","S","e","r","i","i","N","u",
                                                      "m","e","r","a","c","j","i">>,
              <<"N","a","z","w","a","S","z","a","b","l","o","n",
                "u">>, <<"R","o","d","z","a","j","P","o","d","p","i","s",
                                  "u","O","d","b","i","o","r","c","y">>, <<"P","o","d","p","i","s","O","d","b","i","o","r",
                                                            "c","y">>,
              <<"P","o","d","p","i","s","W","y","s","t","a","w",
                "c","y">>, <<"U","w","a","g","i">>, <<"W","i","d","o","c","z","n","y","N","u","m","e",
                                             "r","G","i","o","s">>, <<"N","u","m","e","r">>,
              <<"P","o","z","y","c","j","e">>, <<"K","o","n","t","r","a","h","e","n","t">>>>
        positions ==
            IF Has(inv, <<"P","o","z","y","c","j","e">>) /\ IsList(At(inv, <<"P","o","z","y","c","j","e">>))
            THEN At(inv, <<"P","o","z","y","c","j","e">>).list ELSE <<>>
        bad == {i \in DOMAIN positions : ~order_position(positions[i]).ok}
        entry(key) ==
            IF ~Has(inv, key) THEN <<>>
            ELSE IF key = <<"P","o","z","y","c","j","e">> /\ IsList(At(inv, key))
            THEN << <<key, JList([i \in DOMAIN positions |->
                                     order_position(positions[i]).val])>> >>
            ELSE IF key = <<"K","o","n","t","r","a","h","e","n","t">> /\ IsDict(At(inv, key))
            THEN << <<key, order_contrahent(At(inv, key))>> >>
            ELSE << <<key, At(inv, key)>> >>
    IN IF bad # {}
       THEN order_position(positions[CHOOSE i \in bad : \A j \in bad : i <= j])
       ELSE Ok(JDict(Flatten([i \in DOMAIN keys_order |-> entry(keys_order[i])])))

\* `"Telefon" in kontrahent`, which depends on what kontrahent is.
telefon_in(kontrahent) ==
    IF IsDict(kontrahent) THEN Ok(Has(kontrahent, <<"T","e","l","e","f","o","n">>))
    ELSE IF IsList(kontrahent)
    THEN Ok(\E i \in DOMAIN kontrahent.list : kontrahent.list[i] = JStr(<<"T","e","l","e","f","o","n">>))
    ELSE IF IsStr(kontrahent) THEN Ok(Contains(kontrahent.str, <<"T","e","l","e","f","o","n">>))
    ELSE Raise("TypeError", <<"a","r","g","u","m","e","n","t"," ","i","s"," ",
                              "n","o","t"," ","i","t","e","r","a","b","l","e">>)

\* The in-place steps of upload_invoice before the None removal: drop
\* Status, default the bank account, clean Telefon, overwrite the dates.
normalize(invoice, now) ==
    IF ~IsDict(invoice)
    THEN Raise("AttributeError", <<"o","b","j","e","c","t"," ","h","a","s"," ","n",
                                   "o"," ","a","t","t","r","i","b","u","t","e"," ",
                                   "'","g","e","t","'">>)
    ELSE
    LET no_status == pop(invoice, <<"S","t","a","t","u","s">>)
        with_konto ==
            IF get(no_status, <<"N","u","m","e","r","K","o","n","t","a","B","a",
                                "n","k","o","w","e","g","o">>, None) = None
            THEN setitem(no_status, <<"N","u","m","e","r","K","o","n","t","a","B","a",
                                      "n","k","o","w","e","g","o">>, JStr(<<"B","R","A","K">>))
            ELSE no_status
        kontrahent == get(with_konto, <<"K","o","n","t","r","a","h","e","n","t">>, JDict(<<>>))
        has_tel == telefon_in(kontrahent)
        telefon == At(kontrahent, <<"T","e","l","e","f","o","n">>)
        cleaned ==
            setitem(with_konto, <<"K","o","n","t","r","a","h","e","n","t">>,
                    setitem(kontrahent, <<"T","e","l","e","f","o","n">>,
                            JStr(strip(replace(telefon.str, "'", <<>>)))))
        with_tel == IF has_tel.val THEN cleaned ELSE with_konto
        dates == get_dates(now)
    IN IF ~has_tel.ok THEN has_tel
       ELSE IF has_tel.val /\ ~IsDict(kontrahent)
       THEN Raise("TypeError", <<"i","n","d","i","c","e","s"," ","m","u","s","t",
                                 " ","b","e"," ","i","n","t","e","g","e","r","s">>)
       ELSE IF has_tel.val /\ ~IsStr(telefon)
       THEN Raise("AttributeError", <<"o","b","j","e","c","t"," ","h","a","s"," ","n",
                                      "o"," ","a","t","t","r","i","b","u","t","e"," ",
                                      "'","r","e","p","l","a","c","e","'">>)
       ELSE Ok(setitem(setitem(setitem(with_tel,
                   <<"D","a","t","a","W","y","s","t","a","w","i","e",
                     "n","i","a">>, JStr(dates[1])),
                   <<"D","a","t","a","S","p","r","z","e","d","a","z",
                     "y">>, JStr(dates[1])),
                   <<"T","e","r","m","i","n","P","l","a","t","n","o",
                     "s","c","i">>, JStr(dates[2])))

\* The documented order instead: the nulls forced first, the None removal last.
RECURSIVE remove_none_deep(_)
remove_none_deep(v) ==
    IF IsDict(v)
    THEN LET kept == SelectSeq(v.dict, LAMBDA p : p[2] # None)
         IN JDict([i \in DOMAIN kept |-> <<kept[i][1], remove_none_deep(kept[i][2])>>])
    ELSE IF IsList(v) THEN JList([i \in DOMAIN v.list |-> remove_none_deep(v.list[i])])
    ELSE v

ordered_invoice_prune_last(invoice, now) ==
    LET n == normalize(invoice, now)
        b == build_ordered_invoice(n.val)
    IN IF ~n.ok THEN n ELSE IF ~b.ok THEN b ELSE Ok(remove_none_deep(b.val))

\* upload_invoice up to ordered_invoice: the steps above, then
\* remove_none_values, then build_ordered_invoice.
ordered_invoice(invoice, now) ==
    LET n == normalize(invoice, now)
    IN IF ~n.ok THEN n ELSE build_ordered_invoice(remove_none_values(n.val))

\* ADD_NEWLINE is False: the serialized invoice, right-stripped.
request_content(ordered) == rstrip(json_dumps(ordered))

signed_message_newline(content) ==
    IFIRMA_URL \o IFIRMA_USERNAME \o IFIRMA_KEY_NAME \o content \o <<"\n">>

\* message = IFIRMA_URL + IFIRMA_USERNAME + IFIRMA_KEY_NAME + request_content
signed_message(content) ==
    IFIRMA_URL \o IFIRMA_USERNAME \o IFIRMA_KEY_NAME \o content

\* The headers; Authentication is the text up to the digest, then the
\* hexadecimal digest given.
request_headers(hmac_hash) ==
    [Accept |-> <<"a","p","p","l","i","c","a","t","i","o","n","/",
                  "j","s","o","n">>,
     ContentType |-> <<"a","p","p","l","i","c","a","t","i","o","n","/",
                       "j","s","o","n",";"," ","c","h","a","r","s","e",
                       "t","=","U","T","F","-","8">>,
     Authentication |->
        [text |-> <<"I","A","P","I","S"," ","u","s","e","r","=">> \o IFIRMA_USERNAME \o <<","," ","h","m","a","c","-","s","h","a","1","=">>,
         hexdigest |-> hmac_hash]]

\* What requests.post and raise_for_status can do: a 2xx response, a
\* non-2xx response (HTTPError, with the response), or a network failure
\* (ConnectionError or Timeout, without one).
Outcomes ==
    {[kind |-> "2xx", text |-> <<"{","\"","r","e","s","p","o","n","s","e","\"",":",
                                 "{","\"","K","o","d","\"",":","0","}","}">>],
     [kind |-> "non2xx",
      text |-> <<"4","0","0"," ","C","l","i","e","n","t"," ","E",
                 "r","r","o","r",":"," ","B","a","d"," ","R","e",
                 "q","u","e","s","t"," ","f","o","r"," ","u","r",
                 "l",":"," ">> \o IFIRMA_URL,
      response |-> <<"<","R","e","s","p","o","n","s","e"," ","[","4",
                     "0","0","]",">">>],
     [kind |-> "network", text |-> <<"C","o","n","n","e","c","t","i","o","n"," ","a",
                                     "b","o","r","t","e","d",".">>, response |-> <<"N","o","n","e">>]}

\* What the try block prints for an outcome.
result_text(outcome) ==
    IF outcome.kind = "2xx"
    THEN <<"F","a","k","t","u","r","a"," ","z","o","s","t",
           "a","U+0142","a"," ","p","o","m","y","U+015B","l","n","i",
           "e"," ","d","o","d","a","n","a","."," ","O","d",
           "p","o","w","i","e","d","U+017A",":"," ">> \o outcome.text
    ELSE <<"B","U+0142","U+0105","d"," ","p","r","z","y"," ","w","y",
           "s","y","U+0142","a","n","i","u"," ","f","a","k","t",
           "u","r","y",":"," ">> \o outcome.text
         \o <<"\n","O","d","p","o","w","i","e","d","U+017A",":"," ">> \o outcome.response

\* The dates datetime.now() gives at send time: one whose deadline crosses
\* the end of a leap February, one whose deadline crosses the year's end.
SendDates == {[y |-> 2024, m |-> 2, d |-> 26], [y |-> 2025, m |-> 12, d |-> 28]}

\* main: json.load of the intermediate file, fatal when it cannot be read.
MainLoad ==
    /\ u_pc = "start"
    /\ IF file = Missing
       THEN /\ u_pc' = "fatal"
            /\ UNCHANGED <<u_invoices, u_by, u_out>>
       ELSE /\ u_pc' = "loop"
            /\ u_invoices' = json_load_doc(file).list
            /\ u_by' = file_by
            /\ u_out' = Append(u_out,
                   [idx |-> 0, kind |-> "info",
                    text |-> <<"W","c","z","y","t","a","n","o"," ">> \o NatText(Len(file.list))
                             \o <<" ","f","a","k","t","u","r"," ","d","o"," ","p",
                                  "r","z","e","s","U+0142","a","n","i","a",".">>])
    /\ UNCHANGED <<rows, t_pc, t_i, t_invoices, t_src, t_out, file, file_by, u_i, posts>>

\* One iteration of `for invoice in invoices`: upload_invoice(invoice).  An
\* exception raised before the try block leaves upload_invoice and main.
\* (Each intermediate value is bound once, as the code's local variables.)
UploadInvoice ==
    /\ u_pc = "loop"
    /\ u_i <= Len(u_invoices)
    /\ \E now \in SendDates :
       \E o \in {ordered_invoice(u_invoices[u_i], now)} :
         IF ~o.ok
         THEN /\ u_pc' = "crashed"
              /\ u_out' = Append(u_out, [idx |-> u_i, kind |-> "traceback", text |-> o.msg])
              /\ UNCHANGED <<u_i, posts>>
         ELSE \E content \in {request_content(o.val)} :
              \E message \in {signed_message(content)} :
              \E hashes \in {compute_hmac(message, fromhex(IFIRMA_API_KEY))} :
              \E headers \in {request_headers(hashes[1])} :
              \E outcome \in Outcomes :
                /\ posts' = Append(posts,
                       [idx |-> u_i, now |-> now, json |-> o.val,
                        url |-> IFIRMA_URL, data |-> encode_utf8(content),
                        headers |-> headers, timeout |-> 300])
                /\ u_out' = u_out \o
                       <<[idx |-> u_i, kind |-> "debug",
                          request_content |-> content, message |-> message,
                          hash_lower |-> hashes[1], hash_upper |-> hashes[2],
                          headers |-> headers],
                         [idx |-> u_i,
                          kind |-> IF outcome.kind = "2xx" THEN "success" ELSE "error",
                          text |-> result_text(outcome)]>>
                /\ u_i' = u_i + 1
                /\ u_pc' = u_pc
    /\ UNCHANGED <<rows, t_pc, t_i, t_invoices, t_src, t_out, file, file_by, u_invoices, u_by>>

\* The loop of main ends.
MainDone ==
    /\ u_pc = "loop"
    /\ u_i > Len(u_invoices)
    /\ u_pc' = "done"
    /\ UNCHANGED <<rows, t_pc, t_i, t_invoices, t_src, t_out, file, file_by,
                   u_invoices, u_by, u_i, posts, u_out>>

----------------------------------------------------------------------------
\* Inputs.

\* The spec's end-to-end row: exempt, every column filled.
RowExempt ==
    ("Kod zamowienia" :> <<"A","B","C","1","2">>) @@ ("Data zamowienia" :> <<"2","0","2","5","-","0","3","-","2","3">>)
    @@ ("Godzina zamowienia" :> <<"1","2",":","3","6",":","1","1">>) @@ ("Email" :> <<"j","a","n","@","x",".","p","l">>)
    @@ ("Numer telefonu" :> <<"+","4","8"," ","1","2","3","'","4","5","6","'",
                              "7","8","9">>) @@ ("Suma zamowienia" :> <<"1","0","0",",","0","0">>)
    @@ ("Nazwa wydarzenia" :> <<"C","o","n","c","e","r","t"," ","A">>) @@ ("Wartosc podatku 0.00 %" :> <<"0",",","0","0">>)
    @@ ("Pozycje" :> <<"1">>) @@ ("Imie" :> <<"J","a","n">>) @@ ("Nazwisko" :> <<"N","o","w","a","k">>)
    @@ ("Adres" :> <<"P","o","l","n","a"," ","1">>) @@ ("Kod pocztowy" :> <<"9","0","-","0","0","1">>) @@ ("Kraj" :> <<"P","L">>)
    @@ ("Miasto" :> <<"U+0141","U+00F3","d","U+017A">>)

\* A taxed row whose name and address columns are present but empty.
RowTaxedBlank ==
    ("Kod zamowienia" :> <<"X","Y","9">>) @@ ("Data zamowienia" :> <<"2","0","2","4","-","0","2","-","2","5">>)
    @@ ("Godzina zamowienia" :> <<"0","8",":","0","0",":","0","0">>) @@ ("Email" :> <<"a","@","b",".","c">>)
    @@ ("Numer telefonu" :> <<>>) @@ ("Suma zamowienia" :> <<"4","9",",","9","0">>)
    @@ ("Nazwa wydarzenia" :> <<>>) @@ ("Brutto dla podatku 0.00 %" :> <<"1","2",",","5","0">>)
    @@ ("Wartosc podatku 0.00 %" :> <<"2","3",",","0","0">>) @@ ("Pozycje" :> <<"2">>)
    @@ ("Imie" :> <<>>) @@ ("Nazwisko" :> <<>>) @@ ("Adres" :> <<>>)
    @@ ("Kod pocztowy" :> <<" "," ">>) @@ ("Kraj" :> <<>>) @@ ("Miasto" :> <<>>)

\* The date column is present and empty.
RowNoDate ==
    ("Kod zamowienia" :> <<"N","O","D","A","T","E">>) @@ ("Data zamowienia" :> <<>>)
    @@ ("Godzina zamowienia" :> <<"1","0",":","0","0",":","0","0">>) @@ ("Suma zamowienia" :> <<"1","0",",","0","0">>)
    @@ ("Wartosc podatku 0.00 %" :> <<"0",",","0","0">>)

\* The total is no number.
RowBadNumber ==
    ("Kod zamowienia" :> <<" ","B","A","D","N","U","M">>) @@ ("Data zamowienia" :> <<"2","0","2","5","-","0","3","-","2","3">>)
    @@ ("Godzina zamowienia" :> <<"1","0",":","0","0",":","0","0">>) @@ ("Suma zamowienia" :> <<"a","b","c">>)
    @@ ("Wartosc podatku 0.00 %" :> <<"8",",","0","0">>)

\* Only the order columns: every other column is absent; the VAT is -0,00.
RowSparse ==
    ("Kod zamowienia" :> <<"S","P","7">>) @@ ("Data zamowienia" :> <<"2","0","2","5","-","1","2","-","2","8">>)
    @@ ("Godzina zamowienia" :> <<"2","3",":","5","9",":","5","9">>) @@ ("Suma zamowienia" :> <<"7",",","5">>)
    @@ ("Wartosc podatku 0.00 %" :> <<"-","0",",","0","0">>)

\* The time column is absent.
RowNoTime ==
    ("Kod zamowienia" :> <<"N","O","T","I","M","E">>) @@ ("Data zamowienia" :> <<"2","0","2","5","-","0","3","-","2","3">>)
    @@ ("Suma zamowienia" :> <<"5",",","0","0">>) @@ ("Wartosc podatku 0.00 %" :> <<"5",",","0","0">>)

RowSet == {RowExempt, RowTaxedBlank, RowNoDate, RowBadNumber, RowSparse, RowNoTime}

\* Invoices of a hand-written intermediate file.

\* No dates, a Numer, a null inside Kontrahent and inside a line item.
HandTaxed ==
    JDict(<< <<<<"S","t","a","t","u","s">>, JStr(<<"X">>)>>,
             <<<<"U","w","a","g","i">>, JStr(<<"H","1">>)>>,
             <<<<"N","u","m","e","r">>, JStr(<<"F","/","1">>)>>,
             <<<<"N","u","m","e","r","K","o","n","t","a","B","a",
                 "n","k","o","w","e","g","o">>, JStr(<<"P","L","6","1">>)>>,
             <<<<"S","p","o","s","o","b","Z","a","p","l","a","t",
                 "y">>, None>>,
             <<<<"P","o","z","y","c","j","e">>, JList(<<JDict(<< <<<<"S","t","a","w","k","a","V","a","t">>, JNum(MkFloat(FALSE, 23, 2))>>,
                                            <<<<"I","l","o","s","c">>, None>>,
                                            <<<<"T","y","p","S","t","a","w","k","i","V","a","t">>, JStr(<<"P","R","C">>)>> >>)>>)>>,
             <<<<"K","o","n","t","r","a","h","e","n","t">>, JDict(<< <<<<"N","a","z","w","a">>, JStr(<<"A","n","n","a">>)>>,
                                       <<<<"E","m","a","i","l">>, None>>,
                                       <<<<"T","e","l","e","f","o","n">>, JStr(<<" ","+","4","8"," ","1","2","3","'","4","5","6",
                                                            "'","7","8","9"," ">>)>> >>)>> >>)

\* An exempt line item that still carries a rate; old dates; no Kontrahent.
HandExempt ==
    JDict(<< <<<<"U","w","a","g","i">>, JStr(<<"H","2">>)>>,
             <<<<"D","a","t","a","W","y","s","t","a","w","i","e",
                 "n","i","a">>, JStr(<<"2","0","2","0","-","0","1","-","0","1">>)>>,
             <<<<"D","a","t","a","S","p","r","z","e","d","a","z",
                 "y">>, JStr(<<"2","0","2","0","-","0","1","-","0","2">>)>>,
             <<<<"T","e","r","m","i","n","P","l","a","t","n","o",
                 "s","c","i">>, JStr(<<"2","0","2","0","-","0","1","-","0","3">>)>>,
             <<<<"P","o","z","y","c","j","e">>, JList(<<JDict(<< <<<<"S","t","a","w","k","a","V","a","t">>, JNum(MkFloat(FALSE, 0, 0))>>,
                                            <<<<"T","y","p","S","t","a","w","k","i","V","a","t">>, JStr(<<"Z","W">>)>> >>)>>)>> >>)

\* Kontrahent.Telefon is null.
HandNullTelefon ==
    JDict(<< <<<<"U","w","a","g","i">>, JStr(<<"H","3">>)>>,
             <<<<"K","o","n","t","r","a","h","e","n","t">>, JDict(<< <<<<"N","a","z","w","a">>, JStr(<<"E","w","a">>)>>,
                                       <<<<"T","e","l","e","f","o","n">>, None>> >>)>> >>)

\* A line item that is no object.
HandBadPosition ==
    JDict(<< <<<<"U","w","a","g","i">>, JStr(<<"H","4">>)>>,
             <<<<"P","o","z","y","c","j","e">>, JList(<<JStr(<<"b","i","l","e","t">>)>>)>>,
             <<<<"K","o","n","t","r","a","h","e","n","t">>, JDict(<< <<<<"N","a","z","w","a">>, JStr(<<"O","l","e","k">>)>> >>)>> >>)

HandInvoices == {HandTaxed, HandExempt, HandNullTelefon, HandBadPosition}

SeqsUpTo(S, n) == UNION {[1..k -> S] : k \in 0..n}

----------------------------------------------------------------------------
\* The two batch jobs.  Either input.csv is there and no intermediate file
\* yet, or the intermediate file was written by hand.

Init ==
    /\ \/ /\ rows \in SeqsUpTo(RowSet, MaxRows)
          /\ file = Missing
          /\ file_by = "none"
       \/ /\ rows = <<>>
          /\ file \in {json_dump_doc(JList(s)) : s \in SeqsUpTo(HandInvoices, MaxFile)}
          /\ file_by = "hand"
    /\ t_pc = "rows"
    /\ t_i = 1
    /\ t_invoices = <<>>
    /\ t_src = <<>>
    /\ t_out = <<>>
    /\ u_pc = "start"
    /\ u_invoices = <<>>
    /\ u_by = "none"
    /\ u_i = 1
    /\ posts = <<>>
    /\ u_out = <<>>

Next == ConvertRow \/ WriteOutput \/ MainLoad \/ UploadInvoice \/ MainDone

Spec == Init /\ [][Next]_vars

----------------------------------------------------------------------------
\* Vocabulary of the properties.

\* The invoice the i-th POST was made for, as json.load returned it.
SourceOf(p) == u_invoices[p.idx]

\* The keys of a dict whose value is null.
NullKeys(d) == {d.dict[i][1] : i \in {j \in DOMAIN d.dict : d.dict[j][2] = None}}

\* A null-valued key anywhere in a structure, lists included.
RECURSIVE HasNullKey(_)
HasNullKey(v) ==
    IF IsDict(v)
    THEN \E i \in DOMAIN v.dict : v.dict[i][2] = None \/ HasNullKey(v.dict[i][2])
    ELSE IF IsList(v) THEN \E i \in DOMAIN v.list : HasNullKey(v.list[i])
    ELSE FALSE

\* The line items of a body that are objects.
ItemsOf(b) ==
    IF Has(b, <<"P","o","z","y","c","j","e">>) /\ IsList(At(b, <<"P","o","z","y","c","j","e">>))
    THEN {x \in {At(b, <<"P","o","z","y","c","j","e">>).list[i] : i \in DOMAIN At(b, <<"P","o","z","y","c","j","e">>).list} : IsDict(x)}
    ELSE {}

\* The list under Pozycje, empty when there is none.
ItemList(b) ==
    IF Has(b, <<"P","o","z","y","c","j","e">>) /\ IsList(At(b, <<"P","o","z","y","c","j","e">>)) THEN At(b, <<"P","o","z","y","c","j","e">>).list ELSE <<>>

IsExemptItem(x) == get(x, <<"T","y","p","S","t","a","w","k","i","V","a","t">>, None) = JStr(<<"Z","W">>)

\* The day number of a date "YYYY-MM-DD": days since 0001-01-01, plus one.
DayNumber(s) ==
    LET y == NatOf(SubSeq(s, 1, 4))
        m == NatOf(SubSeq(s, 6, 7))
        d == NatOf(SubSeq(s, 9, 10))
        before == <<0, 31, 59, 90, 120, 151, 181, 212, 243, 273, 304, 334>>
        leap == (y % 4 = 0 /\ y % 100 # 0) \/ y % 400 = 0
    IN 365 * (y - 1) + ((y - 1) \div 4) - ((y - 1) \div 100) + ((y - 1) \div 400)
       + before[m] + (IF m > 2 /\ leap THEN 1 ELSE 0) + d

IsIsoDate(s) ==
    /\ Len(s) = 10 /\ s[5] = "-" /\ s[8] = "-"
    /\ AllDigits(SubSeq(s, 1, 4)) /\ AllDigits(SubSeq(s, 6, 7)) /\ AllDigits(SubSeq(s, 9, 10))

\* The three dates of an invoice agree: sale = issue, deadline = issue + 7 days.
DatesAgree(inv, issue) ==
    /\ get(inv, <<"D","a","t","a","W","y","s","t","a","w","i","e",
                  "n","i","a">>, None) = JStr(issue)
    /\ get(inv, <<"D","a","t","a","S","p","r","z","e","d","a","z",
                  "y">>, None) = JStr(issue)
    /\ IsStr(get(inv, <<"T","e","r","m","i","n","P","l","a","t","n","o",
                        "s","c","i">>, None))
    /\ IsIsoDate(issue) /\ IsIsoDate(At(inv, <<"T","e","r","m","i","n","P","l","a","t","n","o",
                                               "s","c","i">>).str)
    /\ DayNumber(At(inv, <<"T","e","r","m","i","n","P","l","a","t","n","o",
                           "s","c","i">>).str) = DayNumber(issue) + 7

\* A decimal-comma number as the rows write it, or the empty text.
IsNumberText(s) ==
    LET body == IF s # <<>> /\ Head(s) \in {"-", "+"} THEN Tail(s) ELSE s
        seps == {i \in DOMAIN body : body[i] \in {",", "."}}
    IN s = <<>>
       \/ /\ Cardinality(seps) <= 1
          /\ \A i \in DOMAIN body \ seps : IsDigit(body[i])
          /\ Len(body) > Cardinality(seps)

Cell(row, col) == IF col \in DOMAIN row THEN strip(row[col]) ELSE <<>>

\* A row the transformer has to skip: no date, no time, or a malformed number.
IsBrokenRow(row) ==
    \/ Cell(row, "Data zamowienia") = <<>>
    \/ Cell(row, "Godzina zamowienia") = <<>>
    \/ \E col \in {"Suma zamowienia", "Brutto dla podatku 0.00 %",
                   "Wartosc podatku 0.00 %", "Pozycje"} : ~IsNumberText(Cell(row, col))

ProducedRows == {t_src[k] : k \in DOMAIN t_src}
SkippedRows == {t_out[k].row : k \in DOMAIN t_out} \ {0}

----------------------------------------------------------------------------
\* C1, as claimed: the body POSTed for an invoice has no null-valued key
\* anywhere, not at the top level (no null Numer), not in Kontrahent, not in
\* a line item (an exempt item carries no StawkaVat key at all).
C1_NoNullInBody ==
    \A i \in DOMAIN posts : ~HasNullKey(posts[i].json)

\* C1, amended: in the body POSTed, Numer is the only top-level key that can
\* be null, and it is null whenever the invoice had no non-null Numer; no key
\* of an object-valued Kontrahent is null; every exempt ("ZW") line item
\* carries the key StawkaVat with the value null.
C1_NullsOnlyNumerAndExemptRate ==
    \A i \in DOMAIN posts :
        LET b == posts[i].json
            src == SourceOf(posts[i])
        IN /\ NullKeys(b) \subseteq {<<"N","u","m","e","r">>}
           /\ get(src, <<"N","u","m","e","r">>, None) = None => <<"N","u","m","e","r">> \in NullKeys(b)
           /\ (Has(b, <<"K","o","n","t","r","a","h","e","n","t">>) /\ IsDict(At(b, <<"K","o","n","t","r","a","h","e","n","t">>)))
                 => NullKeys(At(b, <<"K","o","n","t","r","a","h","e","n","t">>)) = {}
           /\ \A x \in ItemsOf(b) : IsExemptItem(x) => <<"S","t","a","w","k","a","V","a","t">> \in NullKeys(x)

\* C1, witness: an invoice with a null inside Kontrahent and one with an
\* exempt line item have both been POSTed.
C1_Witness ==
    \E i, j \in DOMAIN posts :
        /\ Has(SourceOf(posts[i]), <<"K","o","n","t","r","a","h","e","n","t">>)
        /\ NullKeys(At(SourceOf(posts[i]), <<"K","o","n","t","r","a","h","e","n","t">>)) # {}
        /\ \E x \in ItemsOf(posts[j].json) : IsExemptItem(x)

----------------------------------------------------------------------------
\* C2: for every POST, the bytes signed are the UTF-8 bytes of
\* IFIRMA_URL + IFIRMA_USERNAME + IFIRMA_KEY_NAME followed, with nothing in
\* between or after, by the very bytes sent as the body; the body is one
\* JSON object; the digest is keyed with the bytes of the hexadecimal API
\* key, and Authentication is "IAPIS user=<USERNAME>, hmac-sha1=" followed
\* by the lowercase hexadecimal digest.
C2_SignedBytesAreSentBytes ==
    \A i \in DOMAIN posts :
        LET p == posts[i]
            auth == p.headers.Authentication
        IN /\ auth.hexdigest.hmac_sha1.msg
                = encode_utf8(IFIRMA_URL \o IFIRMA_USERNAME \o IFIRMA_KEY_NAME) \o p.data
           /\ auth.hexdigest.hmac_sha1.key = fromhex(IFIRMA_API_KEY)
           /\ auth.hexdigest.hex = "lower"
           /\ auth.text = <<"I","A","P","I","S"," ","u","s","e","r","=">> \o IFIRMA_USERNAME \o <<","," ","h","m","a","c","-","s","h","a","1","=">>
           /\ p.url = IFIRMA_URL
           /\ p.data[1] = 123 /\ p.data[Len(p.data)] = 125

\* C2, witness: a body with a character outside ASCII (two bytes in UTF-8)
\* has been signed and POSTed.
C2_Witness ==
    \E i \in DOMAIN posts : \E k \in DOMAIN posts[i].data : posts[i].data[k] >= 128

----------------------------------------------------------------------------
\* C3, as claimed: when main ends, however it ends, exactly one POST was
\* made per invoice of the file, in the order of the file.
C3_OnePostPerInvoiceInOrder ==
    u_pc \in {"done", "crashed"} =>
        /\ Len(posts) = Len(u_invoices)
        /\ \A k \in DOMAIN posts : posts[k].idx = k

----------------------------------------------------------------------------
\* C4: the invoices produced are an order-preserving subsequence of the
\* rows; every row handled gave either one invoice or one diagnostic that
\* names its order code, never both; a row without date or time or with a
\* malformed number is skipped and every other row is produced; the count
\* reported and the file written are those of the invoices produced.
C4_SkipsKeepOrderAndCount ==
    /\ Len(t_src) = Len(t_invoices)
    /\ \A k \in 1..(Len(t_src) - 1) : t_src[k] < t_src[k + 1]
    /\ ProducedRows \cup SkippedRows = 1..(t_i - 1)
    /\ ProducedRows \cap SkippedRows = {}
    /\ Len(t_out) = Cardinality(SkippedRows) + (IF t_pc = "done" THEN 1 ELSE 0)
    /\ \A i \in 1..(t_i - 1) : IsBrokenRow(rows[i]) <=> i \in SkippedRows
    /\ \A k \in DOMAIN t_src :
           At(t_invoices[k], <<"U","w","a","g","i">>) = JStr(Cell(rows[t_src[k]], "Kod zamowienia"))
    /\ \A k \in DOMAIN t_out :
           t_out[k].row # 0 =>
               Contains(t_out[k].text, Cell(rows[t_out[k].row], "Kod zamowienia"))
    /\ t_pc = "done" =>
           /\ t_i = Len(rows) + 1
           /\ t_out[Len(t_out)].text
                  = <<"S","k","o","n","w","e","r","t","o","w","a","n",
                      "o"," ">> \o NatText(Len(t_invoices))
                    \o <<" ","z","a","m","U+00F3","w","i","e","U+0144"," ","d","o",
                         " ","f","o","r","m","a","t","u"," ","i","f","i",
                         "r","m","a","."," ","W","y","n","i","k"," ","z",
                         "a","p","i","s","a","n","o"," ","d","o"," ","i",
                         "f","i","r","m","a","_","i","n","v","o","i","c",
                         "e","s",".","j","s","o","n">>
           /\ Len(file.list) = Len(t_invoices)

\* C4, witness: a batch is done in which a row was skipped and a later row
\* was produced.
C4_Witness ==
    /\ t_pc = "done"
    /\ \E i \in SkippedRows, j \in ProducedRows : i < j

----------------------------------------------------------------------------
\* C5: for an invoice the transformer made from a row and the uploader then
\* sent, a VAT text that is zero gives the line item the type "ZW" and a
\* null StawkaVat, and any other VAT text gives "PRC" and StawkaVat equal to
\* the parsed number.
C5_VatTypeFollowsRate ==
    u_by = "transformer" =>
        \A i \in DOMAIN posts :
            LET row == rows[t_src[posts[i].idx]]
                text == IF "Wartosc podatku 0.00 %" \in DOMAIN row
                        THEN strip(row["Wartosc podatku 0.00 %"]) ELSE <<"0",",","0","0">>
                zero == \A k \in DOMAIN text : text[k] \in {"0", ",", "-", "+"}
                item == At(posts[i].json, <<"P","o","z","y","c","j","e">>).list[1]
            IN IF zero
               THEN /\ At(item, <<"T","y","p","S","t","a","w","k","i","V","a","t">>) = JStr(<<"Z","W">>)
                    /\ get(item, <<"S","t","a","w","k","a","V","a","t">>, JStr(<<>>)) = None
               ELSE /\ At(item, <<"T","y","p","S","t","a","w","k","i","V","a","t">>) = JStr(<<"P","R","C">>)
                    /\ IsNum(get(item, <<"S","t","a","w","k","a","V","a","t">>, None))
                    /\ ~IsZero(At(item, <<"S","t","a","w","k","a","V","a","t">>).num)
                    /\ float_repr(At(item, <<"S","t","a","w","k","a","V","a","t">>).num)
                          = float_repr(py_float(replace(text, ",", <<".">>)).val)

\* C5, witness: an exempt and a taxed invoice of the transformer have both
\* been sent.
C5_Witness ==
    /\ u_by = "transformer"
    /\ \E i, j \in DOMAIN posts :
          /\ \E x \in ItemsOf(posts[i].json) : IsExemptItem(x)
          /\ \E x \in ItemsOf(posts[j].json) : At(x, <<"T","y","p","S","t","a","w","k","i","V","a","t">>) = JStr(<<"P","R","C">>)

----------------------------------------------------------------------------
\* C6, as claimed: no error raised while one invoice is handled leaves
\* upload_invoice; each invoice of the file is POSTed or skipped with a
\* diagnostic, and main goes on to the next.
C6_ErrorsCaughtPerInvoice ==
    /\ u_pc # "crashed"
    /\ \A k \in DOMAIN u_out : u_out[k].kind # "traceback"

----------------------------------------------------------------------------
\* C7, as claimed: in every invoice the transformer produced, none of
\* Nazwa, Ulica, KodPocztowy, Kraj, Miejscowosc of Kontrahent is blank.
C7_CounterpartyNeverBlank ==
    \A k \in DOMAIN t_invoices :
        \A f \in {<<"N","a","z","w","a">>, <<"U","l","i","c","a">>, <<"K","o","d","P","o","c","z","t","o","w","y">>, <<"K","r","a","j">>, <<"M","i","e","j","s","c","o","w","o","s","c">>} :
            strip(At(At(t_invoices[k], <<"K","o","n","t","r","a","h","e","n","t">>), f).str) # <<>>

----------------------------------------------------------------------------
\* C8, as claimed: the diagnostic printed for a failed upload contains the
\* invoice's Uwagi and its counterparty's Nazwa.
C8_FailureDiagnosticNamesInvoice ==
    \A k \in DOMAIN u_out :
        u_out[k].kind = "error" =>
            LET src == u_invoices[u_out[k].idx]
                k_dict == get(src, <<"K","o","n","t","r","a","h","e","n","t">>, JDict(<<>>))
            IN /\ Has(src, <<"U","w","a","g","i">>) => Contains(u_out[k].text, At(src, <<"U","w","a","g","i">>).str)
               /\ Has(k_dict, <<"N","a","z","w","a">>) => Contains(u_out[k].text, At(k_dict, <<"N","a","z","w","a">>).str)

----------------------------------------------------------------------------
\* C9, as claimed: the body sent is what the six steps give in the
\* documented order, the nulls forced on exempt items before the recursive
\* null removal and nothing null added after it.
C9_DocumentedOrder ==
    \A i \in DOMAIN posts :
        posts[i].json = ordered_invoice_prune_last(SourceOf(posts[i]), posts[i].now).val

\* C9, amended: upload_invoice drops Status, defaults a null or absent
\* NumerKontaBankowego to "BRAK", cleans Telefon and overwrites the dates;
\* then removes the null-valued keys of objects (an invoice whose Telefon is
\* null never gets that far, and a null inside a line item stays); and only
\* then, building the ordered structure, sets an absent Numer to null and
\* StawkaVat to null on every "ZW" line item: the structure serialized keeps
\* those nulls, and a further null removal would change it.
C9_NullsForcedAfterRemoval ==
    \A i \in DOMAIN posts :
        LET b == posts[i].json
            src == SourceOf(posts[i])
            k_src == get(src, <<"K","o","n","t","r","a","h","e","n","t">>, JDict(<<>>))
            tel == At(At(b, <<"K","o","n","t","r","a","h","e","n","t">>), <<"T","e","l","e","f","o","n">>).str
        IN /\ ~Has(b, <<"S","t","a","t","u","s">>)
           /\ At(b, <<"N","u","m","e","r","K","o","n","t","a","B","a",
                      "n","k","o","w","e","g","o">>)
                 = (IF get(src, <<"N","u","m","e","r","K","o","n","t","a","B","a",
                                  "n","k","o","w","e","g","o">>, None) = None
                    THEN JStr(<<"B","R","A","K">>) ELSE At(src, <<"N","u","m","e","r","K","o","n","t","a","B","a",
                                                      "n","k","o","w","e","g","o">>))
           /\ Has(k_src, <<"T","e","l","e","f","o","n">>) =>
                 /\ IsStr(At(k_src, <<"T","e","l","e","f","o","n">>))
                 /\ ~Contains(tel, <<"'">>)
                 /\ tel = <<>> \/ (Head(tel) # " " /\ tel[Len(tel)] # " ")
           /\ At(b, <<"D","a","t","a","W","y","s","t","a","w","i","e",
                      "n","i","a">>) = JStr(isoformat(posts[i].now))
           /\ \A key \in NullKeys(src) \ {<<"N","u","m","e","r">>, <<"N","u","m","e","r","K","o","n","t","a","B","a",
                                                      "n","k","o","w","e","g","o">>} : ~Has(b, key)
           /\ Has(b, <<"N","u","m","e","r">>)
           /\ get(src, <<"N","u","m","e","r">>, None) = None =>
                 (At(b, <<"N","u","m","e","r">>) = None /\ remove_none_values(b) # b)
           /\ \A x \in ItemsOf(b) : IsExemptItem(x) => get(x, <<"S","t","a","w","k","a","V","a","t">>, JStr(<<>>)) = None
           /\ \A n \in DOMAIN ItemList(src) :
                 IsDict(ItemList(src)[n]) =>
                    NullKeys(ItemList(src)[n]) \cap {<<"I","l","o","s","c">>, <<"C","e","n","a","J","e","d","n","o","s","t","k",
                                                                 "o","w","a">>}
                       \subseteq NullKeys(ItemList(b)[n])

\* C9, witness: an invoice with a Status, a null bank account, apostrophes in
\* Telefon and an exempt line item has been sent.
C9_Witness ==
    \E i \in DOMAIN posts :
        LET src == SourceOf(posts[i])
        IN /\ Has(src, <<"S","t","a","t","u","s">>)
           /\ get(src, <<"N","u","m","e","r","K","o","n","t","a","B","a",
                         "n","k","o","w","e","g","o">>, None) = None
           /\ Contains(At(At(src, <<"K","o","n","t","r","a","h","e","n","t">>), <<"T","e","l","e","f","o","n">>).str, <<"'">>)
           /\ \E x \in ItemsOf(posts[i].json) : IsExemptItem(x)

----------------------------------------------------------------------------
\* C10: the deadline is 7 calendar days after the issue date and the sale
\* date is the issue date, in every invoice of the transformer, where the
\* issue date is the date of the order (2025-03-23 gives the deadline
\* 2025-03-30), and in every body sent, where the issue date is the date at
\* send time whatever dates the invoice held or lacked.
C10_DeadlineSevenDaysAfterIssue ==
    /\ \A k \in DOMAIN t_invoices :
          LET issue == Cell(rows[t_src[k]], "Data zamowienia")
          IN /\ DatesAgree(t_invoices[k], issue)
             /\ issue = <<"2","0","2","5","-","0","3","-","2","3">> =>
                   At(t_invoices[k], <<"T","e","r","m","i","n","P","l","a","t","n","o",
                                       "s","c","i">>) = JStr(<<"2","0","2","5","-","0","3","-","3","0">>)
    /\ \A i \in DOMAIN posts :
          LET now == posts[i].now
              today == ZeroPad(NatText(now.y), 4) \o <<"-">> \o ZeroPad(NatText(now.m), 2)
                       \o <<"-">> \o ZeroPad(NatText(now.d), 2)
          IN DatesAgree(posts[i].json, today)

\* C10, witness: the transformer produced an invoice whose deadline falls in
\* the next year, and a body was sent whose dates are not those the invoice
\* held and whose deadline falls in the next month.
C10_Witness ==
    /\ \E k \in DOMAIN t_invoices :
          SubSeq(At(t_invoices[k], <<"T","e","r","m","i","n","P","l","a","t","n","o",
                                     "s","c","i">>).str, 1, 4)
             # SubSeq(At(t_invoices[k], <<"D","a","t","a","W","y","s","t","a","w","i","e",
                                          "n","i","a">>).str, 1, 4)
    /\ \E i \in DOMAIN posts :
          /\ get(SourceOf(posts[i]), <<"D","a","t","a","W","y","s","t","a","w","i","e",
                                       "n","i","a">>, None)
                # At(posts[i].json, <<"D","a","t","a","W","y","s","t","a","w","i","e",
                                      "n","i","a">>)
          /\ SubSeq(At(posts[i].json, <<"T","e","r","m","i","n","P","l","a","t","n","o",
                                        "s","c","i">>).str, 6, 7)
                # SubSeq(At(posts[i].json, <<"D","a","t","a","W","y","s","t","a","w","i","e",
                                             "n","i","a">>).str, 6, 7)

====
